---- MODULE Spec2Model ----
(***************************************************************************)
(* Public gallery endpoints of photolibrary-api: the dual-source gallery   *)
(* lookup (remote studio service first, local store as fallback), the ZIP  *)
(* streaming loop and the asset fetcher with its redirect / version-strip  *)
(* retry logic.                                                            *)
(*                                                                         *)
(* Strings are sequences of tokens.  A token is a piece of text that the   *)
(* code never looks inside: "/" and "?" are the separators the code splits *)
(* on, "http:" / "https:" / "ftp:" are schemes, "v" is the letter that     *)
(* starts a version segment, "0".."9" are digits, "%20" is a valid percent *)
(* escape, "%zz" an invalid one, " " is white space.                       *)
(***************************************************************************)
EXTENDS Integers, Sequences, FiniteSets, TLC

\* ------------------------------------------------------------------ bounds
\* longest photo list a gallery carries in the model
MaxPhotos == 2
\* the attempt counter is explored up to this value (the code's 404 retry
\* path has no cap of its own)
MaxAttempt == 5

\* ------------------------------------------------------------- JS values
\* undefined / SQL NULL
Absent == <<"<absent>">>
\* the JSON value null
JsonNull == <<"<null>">>

\* JavaScript truthiness of an optional string
Truthy(s) == s # Absent /\ s # JsonNull /\ s # <<>>

Digits == {"0", "1", "2", "3", "4", "5", "6", "7", "8", "9"}

\* ------------------------------------------------------- string helpers
\* String.prototype.includes
Includes(s, sub) ==
  \E i \in 1..(Len(s) - Len(sub) + 1) : SubSeq(s, i, i + Len(sub) - 1) = sub

\* index of the first occurrence of token t in s at or after i, 0 if none
RECURSIVE IndexFrom(_, _, _)
IndexFrom(s, t, i) ==
  IF i > Len(s) THEN 0
  ELSE IF s[i] = t THEN i
  ELSE IndexFrom(s, t, i + 1)

\* String.prototype.split(sep): the sequence of pieces between separators
RECURSIVE Split(_, _)
Split(s, sep) ==
  LET k == IndexFrom(s, sep, 1) IN
  IF k = 0 THEN <<s>>
  ELSE <<SubSeq(s, 1, k - 1)>> \o Split(SubSeq(s, k + 1, Len(s)), sep)

\* Array.prototype.pop on a non-empty array: its last element
Pop(a) == a[Len(a)]

\* String.prototype.trim
RECURSIVE TrimLeft(_)
TrimLeft(s) ==
  IF s # <<>> /\ Head(s) = " " THEN TrimLeft(Tail(s)) ELSE s

RECURSIVE TrimRight(_)
TrimRight(s) ==
  IF s # <<>> /\ s[Len(s)] = " " THEN TrimRight(SubSeq(s, 1, Len(s) - 1)) ELSE s

Trim(s) == TrimRight(TrimLeft(s))

\* ------------------------------------------------------------------ URLs
Schemes == {"http:", "https:", "ftp:"}

\* new URL(url) succeeds: scheme, "//", a host
ParseOk(url) ==
  /\ Len(url) >= 4
  /\ url[1] \in Schemes
  /\ url[2] = "/" /\ url[3] = "/"
  /\ url[4] \notin {"/", "?"}

\* new URL(url).pathname for a url that parses: from the first "/" after the
\* host up to the query, "/" when the url has no path
Pathname(url) ==
  LET rest == SubSeq(url, 5, Len(url))
      q    == IndexFrom(rest, "?", 1)
      path == IF q = 0 THEN rest ELSE SubSeq(rest, 1, q - 1)
  IN IF path = <<>> THEN <<"/">> ELSE path

\* the percent escapes of the model: one valid, one malformed
DecodeToken(t) == IF t = "%20" THEN " " ELSE t

\* decodeURIComponent: [ok |-> FALSE] stands for the URIError it throws on a
\* malformed escape
decodeURIComponent(s) ==
  IF \E i \in 1..Len(s) : s[i] = "%zz"
  THEN [ok |-> FALSE, value |-> <<>>]
  ELSE [ok |-> TRUE, value |-> [i \in 1..Len(s) |-> DecodeToken(s[i])]]


\* http.get / https.get throw synchronously on a url that does not parse or
\* whose protocol the chosen module does not speak
GetThrows(url) == ~ParseOk(url) \/ url[1] \notin {"http:", "https:"}

\* the first match of /\/upload\/v\d+\// at or after position i:
\* <<start, end>> of the match, <<0, 0>> if there is none
RECURSIVE DigitsEnd(_, _)
DigitsEnd(s, j) ==
  IF j + 1 <= Len(s) /\ s[j + 1] \in Digits THEN DigitsEnd(s, j + 1) ELSE j

RECURSIVE VersionMatch(_, _)
VersionMatch(s, i) ==
  IF i + 5 > Len(s) THEN <<0, 0>>
  ELSE IF /\ SubSeq(s, i, i + 3) = <<"/", "upload", "/", "v">>
          /\ s[i + 4] \in Digits
          /\ DigitsEnd(s, i + 4) + 1 <= Len(s)
          /\ s[DigitsEnd(s, i + 4) + 1] = "/"
       THEN <<i, DigitsEnd(s, i + 4) + 1>>
       ELSE VersionMatch(s, i + 1)

\* url.replace(/\/upload\/v\d+\//, '/upload/'): the first match only
StripVersion(url) ==
  LET m == VersionMatch(url, 1) IN
  IF m[1] = 0 THEN url
  ELSE SubSeq(url, 1, m[1] - 1) \o <<"/", "upload", "/">>
       \o SubSeq(url, m[2] + 1, Len(url))

\* ------------------------------------------------------ asset fetcher
MaxRedirectAttempt == 3

\* variant: the redirect cap tested one attempt late
fetchImageStream_OffByOne(url, attempt, response) ==
  IF response.status >= 300 /\ response.status < 400 /\ Truthy(response.location)
  THEN IF attempt > MaxRedirectAttempt + 1
       THEN [act |-> "null", why |-> "too_many_redirects", next |-> url, drained |-> FALSE]
       ELSE [act |-> "recurse", why |-> "redirect", next |-> response.location, drained |-> FALSE]
  ELSE IF response.status = 200
  THEN [act |-> "stream", why |-> "ok", next |-> url, drained |-> FALSE]
  ELSE IF response.status = 404 /\ Includes(url, <<"/", "upload", "/", "v">>)
  THEN [act |-> "recurse", why |-> "retry_404", next |-> StripVersion(url), drained |-> FALSE]
  ELSE [act |-> "null", why |-> "status", next |-> url, drained |-> TRUE]

\* variant: a 404 is never retried
fetchImageStream_NoRetry(url, attempt, response) ==
  IF response.status >= 300 /\ response.status < 400 /\ Truthy(response.location)
  THEN IF attempt > MaxRedirectAttempt
       THEN [act |-> "null", why |-> "too_many_redirects", next |-> url, drained |-> FALSE]
       ELSE [act |-> "recurse", why |-> "redirect", next |-> response.location, drained |-> FALSE]
  ELSE IF response.status = 200
  THEN [act |-> "stream", why |-> "ok", next |-> url, drained |-> FALSE]
  ELSE [act |-> "null", why |-> "status", next |-> url, drained |-> TRUE]

\* The response callback of fetchImageStream(url, attempt): what the promise
\* is resolved with.  act = "recurse" is resolve(fetchImageStream(next,
\* attempt + 1)); drained is response.resume(); why names the log line.
fetchImageStream(url, attempt, response) ==
  IF response.status >= 300 /\ response.status < 400 /\ Truthy(response.location)
  THEN IF attempt > MaxRedirectAttempt
       THEN [act |-> "null", why |-> "too_many_redirects", next |-> url, drained |-> FALSE]
       ELSE [act |-> "recurse", why |-> "redirect", next |-> response.location, drained |-> FALSE]
  ELSE IF response.status = 200
  THEN [act |-> "stream", why |-> "ok", next |-> url, drained |-> FALSE]
  ELSE IF response.status = 404 /\ Includes(url, <<"/", "upload", "/", "v">>)
  THEN [act |-> "recurse", why |-> "retry_404", next |-> StripVersion(url), drained |-> FALSE]
  ELSE [act |-> "null", why |-> "status", next |-> url, drained |-> TRUE]

\* ------------------------------------------------- filename resolver
\* null is JsonNull
normalizeFilename(value) ==
  IF ~Truthy(value) THEN JsonNull
  ELSE IF Trim(value) # <<>> THEN Trim(value) ELSE JsonNull

\* [ok |-> FALSE] stands for an exception leaving the function
extractFilenameFromUrl(url) ==
  LET ret(seg) == IF seg # <<>> THEN decodeURIComponent(seg)
                  ELSE [ok |-> TRUE, value |-> JsonNull]
      tried   == IF ParseOk(url) THEN ret(Pop(Split(Pathname(url), "/")))
                 ELSE [ok |-> FALSE, value |-> <<>>]
  IN IF ~Truthy(url) THEN [ok |-> TRUE, value |-> JsonNull]
     ELSE IF tried.ok THEN tried
     ELSE ret(Pop(Split(Split(url, "?")[1], "/")))

resolveDownloadFilename(photo) ==
  LET directName == normalizeFilename(photo.filename)
      extracted  == extractFilenameFromUrl(photo.url)
      urlName    == normalizeFilename(extracted.value)
      base       == Pop(Split(photo.public_id, "/"))
  IN IF directName # JsonNull THEN [ok |-> TRUE, value |-> directName]
     ELSE IF ~extracted.ok THEN [ok |-> FALSE, value |-> <<>>]
     ELSE IF urlName # JsonNull THEN [ok |-> TRUE, value |-> urlName]
     ELSE IF Truthy(photo.public_id)
     THEN [ok |-> TRUE, value |-> IF base # <<>> THEN base ELSE photo.public_id]
     ELSE [ok |-> TRUE,
           value |-> <<"photo_", IF photo.id # "" THEN photo.id ELSE "image", ".jpg">>]


\* ------------------------------------------------------------ the data
Host == <<"http:", "/", "/", "h">>
UrlPlain == Host \o <<"/", "a.jpg">>
UrlVersioned == Host \o <<"/", "upload", "/", "v", "1", "2", "/", "b.jpg">>
UrlVacation == Host \o <<"/", "upload", "/", "v", "acation", "/", "c.jpg">>
UrlBadEscape == Host \o <<"/", "d", "%zz">>
UrlRelative == <<"/", "moved", "/", "e.jpg">>

Photo(id, url, filename, public_id, created_at) ==
  [id |-> id, url |-> url, filename |-> filename, public_id |-> public_id,
   created_at |-> created_at]

\* photos a remote payload may carry (type GalleryPhoto: every field optional)
RemotePhotos ==
  { Photo("r1", UrlPlain, <<"one.jpg">>, <<"g", "/", "one">>, 1),
    Photo("r2", UrlVersioned, Absent, <<"g", "/", "two">>, 2),
    Photo("r3", UrlVacation, <<" ", "three.jpg", " ">>, Absent, 3),
    Photo("r4", Absent, Absent, Absent, 4),
    Photo("r5", UrlBadEscape, Absent, <<"g", "/", "five">>, 5),
    Photo("r6", UrlRelative, <<" ">>, Absent, 6) }

\* rows of the photos table: savePhotoRecord stores a non-empty url, filename
\* and public_id
PhotoRow(id, client_id, url, filename, public_id, created_at) ==
  [id |-> id, client_id |-> client_id, url |-> url, filename |-> filename,
   public_id |-> public_id, created_at |-> created_at]

PhotoRows ==
  { PhotoRow("p1", "c1", UrlPlain, <<"one.jpg">>, <<"g", "/", "one">>, 1),
    PhotoRow("p2", "c1", UrlVersioned, <<"two.jpg">>, <<"g", "/", "two">>, 2),
    PhotoRow("p3", "c1", UrlVacation, <<"three.jpg">>, <<"g", "/", "three">>, 3) }

Slugs == {"smith", "jones"}

\* rows of the clients table (slug is unique); status may be NULL
ClientRows ==
  { [id |-> "c1", name |-> <<"Smith", " ", "&", " ", "Co">>, slug |-> "smith",
     status |-> Absent] }

\* the gallery the remote studio service knows (type StudioGallery)
RemoteClient ==
  [id |-> "rc", name |-> <<"Remote", "-", "1">>, slug |-> "smith",
   status |-> Absent]

\* all sequences that enumerate the set S
RECURSIVE Perms(_)
Perms(S) ==
  IF S = {} THEN {<<>>}
  ELSE UNION {{<<x>> \o p : p \in Perms(S \ {x})} : x \in S}

\* all lists of distinct elements of S, up to n long
ListsUpTo(S, n) ==
  UNION {Perms(T) : T \in {T \in SUBSET S : Cardinality(T) <= n}}

\* What the studio service does with one lookup (it knows one gallery, by
\* its slug).  kind: "noconfig" (no
\* ADMIN_SYNC_SECRET), "neterr" (fetch rejects), "http" (a response).
\* body: "gallery", "null" (JSON null), "unparsable"; photosKind says
\* whether the gallery's photos field is an array, missing, or another value.
RemoteOutcome(kind, status, body, photosKind, photos) ==
  [kind |-> kind, status |-> status, body |-> body, photosKind |-> photosKind,
   photos |-> photos]

RemoteOutcomes(slug) ==
  { RemoteOutcome("noconfig", 0, "none", "absent", <<>>),
    RemoteOutcome("neterr", 0, "none", "absent", <<>>),
    RemoteOutcome("http", 404, "none", "absent", <<>>),
    RemoteOutcome("http", 500, "none", "absent", <<>>),
    RemoteOutcome("http", 200, "unparsable", "absent", <<>>),
    RemoteOutcome("http", 200, "null", "absent", <<>>) }
  \cup (IF slug # RemoteClient.slug THEN {}
        ELSE { RemoteOutcome("http", 200, "gallery", "absent", <<>>),
               RemoteOutcome("http", 200, "gallery", "nonarray", <<>>) }
             \cup { RemoteOutcome("http", 200, "gallery", "array", l) :
                      l \in ListsUpTo(RemotePhotos, MaxPhotos) })

\* the responses of the asset host to one GET
Locations == {UrlVersioned, UrlRelative}

AssetResponses ==
  { [status |-> st, location |-> Absent] : st \in {200, 301, 404, 500} }
  \cup { [status |-> 301, location |-> l] : l \in Locations }


\* --------------------------------------------------- results and errors
\* AppError(message, status) and a plain Error
AppError(message, status) == [app |-> TRUE, status |-> status, message |-> message]
PlainError(message) == [app |-> FALSE, status |-> 0, message |-> message]
NoError == [app |-> FALSE, status |-> 0, message |-> ""]

\* a gallery value; null |-> TRUE is the JSON value null
Gallery(id, name, slug, status, photosKind, photos) ==
  [null |-> FALSE, id |-> id, name |-> name, slug |-> slug, status |-> status,
   photosKind |-> photosKind, photos |-> photos]
NullValue ==
  [null |-> TRUE, id |-> "", name |-> <<>>, slug |-> "", status |-> Absent,
   photosKind |-> "absent", photos |-> <<>>]

\* how a call ends: a returned value or a raised error; log is the list of
\* queries the call sent to the local store
Returned(v, log) == [ok |-> TRUE, value |-> v, err |-> NoError, log |-> log]
Raised(e, log) == [ok |-> FALSE, value |-> NullValue, err |-> e, log |-> log]

\* ------------------------------------------------------ studio service
callStudioApi(r) ==
  IF r.kind = "noconfig" THEN Raised(PlainError("Studio API config missing"), <<>>)
  ELSE IF r.kind = "neterr" THEN Raised(PlainError("fetch failed"), <<>>)
  ELSE IF r.status = 404 THEN Returned(NullValue, <<>>)
  ELSE IF ~(r.status >= 200 /\ r.status <= 299)
  THEN Raised(PlainError("Studio API error"), <<>>)
  ELSE IF r.body = "unparsable" THEN Raised(PlainError("Unexpected token"), <<>>)
  ELSE IF r.body = "null" THEN Returned(NullValue, <<>>)
  ELSE Returned(Gallery(RemoteClient.id, RemoteClient.name, RemoteClient.slug,
                        RemoteClient.status, r.photosKind, r.photos), <<>>)

\* ---------------------------------------------------------- local store
\* SELECT * FROM clients WHERE slug = $1
ClientsBySlug(st, slug) == {c \in st.clients : c.slug = slug}

\* SELECT * FROM photos WHERE client_id = $1: no ORDER BY, so the rows come
\* in any order
PhotosOfClient(st, cid) == Perms({p \in st.photos : p.client_id = cid})

IsDescending(l) ==
  \A i \in 1..(Len(l) - 1) : l[i].created_at >= l[i + 1].created_at

\* variant: the query without its ORDER BY
PhotosOfClientDesc_Unordered(st, cid) ==
  { [i \in 1..Len(l) |->
       Photo(l[i].id, l[i].url, l[i].filename, l[i].public_id, l[i].created_at)] :
    l \in PhotosOfClient(st, cid) }

\* SELECT id, url, filename, public_id, created_at FROM photos
\*   WHERE client_id = $1 ORDER BY created_at DESC
PhotosOfClientDesc(st, cid) ==
  { [i \in 1..Len(l) |->
       Photo(l[i].id, l[i].url, l[i].filename, l[i].public_id, l[i].created_at)] :
    l \in {m \in PhotosOfClient(st, cid) : IsDescending(m)} }

\* ---------------------------------------------------- gallery service
\* Each service function yields the set of ways the call can end (a query
\* without ORDER BY may return its rows in any order).
\* variant: a missing row yields an empty gallery instead of AppError 404
fetchGalleryFromDatabase_Lenient(slug, st) ==
  IF ClientsBySlug(st, slug) = {}
  THEN {Returned(Gallery("", <<>>, slug, <<"ACTIVE">>, "array", <<>>),
                 <<"clients_by_slug", "photos_by_client_desc">>)}
  ELSE LET client == CHOOSE c \in ClientsBySlug(st, slug) : TRUE IN
       { Returned(Gallery(client.id, client.name, client.slug,
                          IF Truthy(client.status) THEN client.status ELSE <<"ACTIVE">>,
                          "array", rows),
                  <<"clients_by_slug", "photos_by_client_desc">>) :
         rows \in PhotosOfClientDesc(st, client.id) }

fetchGalleryFromDatabase(slug, st) ==
  IF ClientsBySlug(st, slug) = {}
  THEN {Raised(AppError("Client not found", 404), <<"clients_by_slug">>)}
  ELSE LET client == CHOOSE c \in ClientsBySlug(st, slug) : TRUE IN
       { Returned(Gallery(client.id, client.name, client.slug,
                          IF Truthy(client.status) THEN client.status ELSE <<"ACTIVE">>,
                          "array", rows),
                  <<"clients_by_slug", "photos_by_client_desc">>) :
         rows \in PhotosOfClientDesc(st, client.id) }

\* variant: the studio lookup outside try/catch
getGalleryPayload_NoCatch(slug, r, st) ==
  LET studio == callStudioApi(r) IN
  IF ~studio.ok THEN {studio}
  ELSE IF ~studio.value.null THEN {studio}
  ELSE fetchGalleryFromDatabase(slug, st)

\* variant: the local store is queried even after a remote hit
getGalleryPayload_AlwaysLocal(slug, r, st) ==
  LET studio == callStudioApi(r) IN
  IF studio.ok /\ ~studio.value.null
  THEN {Returned(studio.value, l.log) : l \in fetchGalleryFromDatabase(slug, st)}
  ELSE fetchGalleryFromDatabase(slug, st)

getGalleryPayload(slug, r, st) ==
  LET studio == callStudioApi(r) IN
  IF studio.ok /\ ~studio.value.null THEN {studio}
  ELSE fetchGalleryFromDatabase(slug, st)

\* the value is [client, photos]
DownloadPayload(client, photos) == [client |-> client, photos |-> photos]
NoPayload == DownloadPayload(NullValue, <<>>)

\* lines 93-97: the emptiness check that ends both branches
CheckPhotos(client, photos, log) ==
  IF Len(photos) = 0
  THEN [ok |-> FALSE, value |-> NoPayload,
        err |-> AppError("No photos to download", 400), log |-> log]
  ELSE [ok |-> TRUE, value |-> DownloadPayload(client, photos), err |-> NoError,
        log |-> log]

\* variant: a remote gallery without photos falls back to the local store
getGalleryDownloadPayload_FallbackOnEmpty(slug, r, st) ==
  LET studio == callStudioApi(r)
      remotePhotos == IF studio.value.photosKind = "array" THEN studio.value.photos
                      ELSE <<>>
  IN
  IF studio.ok /\ ~studio.value.null /\ remotePhotos # <<>>
  THEN {CheckPhotos(studio.value, remotePhotos, <<>>)}
  ELSE IF ClientsBySlug(st, slug) = {}
  THEN {[ok |-> FALSE, value |-> NoPayload,
         err |-> AppError("Gallery not found", 404), log |-> <<"clients_by_slug">>]}
  ELSE LET client == CHOOSE c \in ClientsBySlug(st, slug) : TRUE IN
       { CheckPhotos(client, rows, <<"clients_by_slug", "photos_by_client">>) :
         rows \in PhotosOfClient(st, client.id) }

getGalleryDownloadPayload(slug, r, st) ==
  LET studio == callStudioApi(r) IN
  IF studio.ok /\ ~studio.value.null
  THEN {CheckPhotos(studio.value,
                    IF studio.value.photosKind = "array" THEN studio.value.photos
                    ELSE <<>>,
                    <<>>)}
  ELSE IF ClientsBySlug(st, slug) = {}
  THEN {[ok |-> FALSE, value |-> NoPayload,
         err |-> AppError("Gallery not found", 404), log |-> <<"clients_by_slug">>]}
  ELSE LET client == CHOOSE c \in ClientsBySlug(st, slug) : TRUE IN
       { CheckPhotos(client, rows, <<"clients_by_slug", "photos_by_client">>) :
         rows \in PhotosOfClient(st, client.id) }


\* ------------------------------------------------------- HTTP response
\* status 0: nothing written yet; body: "none", "json" or "zip"; sent: bytes
\* of the body have left (headers can no longer change)
NoResponse ==
  [status |-> 0, error |-> "", attachment |-> Absent, body |-> "none",
   sent |-> FALSE]

errorHandler(err, res) ==
  IF err.app
  THEN [res EXCEPT !.status = err.status, !.error = err.message, !.body = "json"]
  ELSE [res EXCEPT !.status = 500, !.error = "Internal Server Error",
                   !.body = "json"]

\* lib/http success(res, data): 200 with the data as JSON
success(res) == [res EXCEPT !.status = 200, !.body = "json"]

\* middleware/async-handler: a rejection of the handler goes to errorHandler;
\* once body bytes have left, the status line cannot be rewritten
asyncHandler(outcome, res) ==
  IF outcome.ok \/ res.sent THEN res ELSE errorHandler(outcome.err, res)

\* variant: the replaced characters are dropped
AttachmentName_Drop(name) ==
  SelectSeq(name, LAMBDA t : t \notin {" ", "&", "-", ".", "/", "_", "?"})
  \o <<"_Gallery.zip">>

\* client.name.replace(/[^a-z0-9]/gi, '_') + '_Gallery.zip'
NonAlnum == {" ", "&", "-", ".", "/", "_", "?"}
AttachmentName(name) ==
  [i \in 1..Len(name) |-> IF name[i] \in NonAlnum THEN "_" ELSE name[i]]
  \o <<"_Gallery.zip">>

\* ---------------------------------------------------------------- state
VARIABLES
  store,    \* the local relational store: [clients, photos]
  pc,       \* where the request in progress stands
  req,      \* the request: [kind, slug, remote]
  svc,      \* how the service call of the request ended
  resp,     \* the HTTP response
  archive,  \* the archiver instance: [created, entries, finalized]
  photos,   \* the photo list given to streamGalleryDownload
  idx,      \* the position of its for-loop
  cur,      \* the fetchImageStream call in progress
  hist,     \* how each photo reached so far was dealt with
  last,     \* how the last fetchImageStream call that resolved null ended
  conn,     \* the client connection: [closed]
  arg,      \* the argument of a resolveDownloadFilename call
  ret,      \* what the call returned
  pair,     \* two downloads in progress at once, each with its own locals
  db,       \* the clients and photos tables as runCleanup sees them
  cdn,      \* the calls made to the media CDN, in order
  job       \* the runCleanup call in progress

vars ==
  <<store, pc, req, svc, resp, archive, photos, idx, cur, hist, last, conn,
    arg, ret, pair, db, cdn, job>>

\* open: the appended streams that have emitted neither end nor error
NoArchive ==
  [created |-> FALSE, entries |-> <<>>, open |-> {}, finalized |-> 0,
   failed |-> FALSE]
\* prev, via: the url of the request this one follows up and the branch that
\* issued it ("redirect" or "retry_404"; "" for the first request of a call)
NoFetch ==
  [url |-> <<>>, attempt |-> 0, hops |-> 0, redirects |-> 0, name |-> <<>>,
   prev |-> <<>>, via |-> ""]
NoRequest ==
  [kind |-> "none", slug |-> "", remote |-> RemoteOutcome("neterr", 0, "none", "absent", <<>>)]
NoOutcome == Returned(NullValue, <<>>)
NoLast == [why |-> "", drained |-> FALSE, status |-> 0]
\* the client has not gone away
NoConn == [closed |-> FALSE]
NoArg == Photo("", Absent, Absent, Absent, 0)
NoRet == [called |-> FALSE, ok |-> TRUE, value |-> <<>>]
NoPair == <<>>
NoDb == [clients |-> {}, photos |-> <<>>]
NoJob == [pc |-> "none"]

\* the parts of the state that the public gallery endpoints never touch
AdminIdle == pair = NoPair /\ db = NoDb /\ cdn = <<>> /\ job = NoJob

\* a store: a photo row belongs to a client row of the store
Stores ==
  { [clients |-> cs, photos |-> ps] :
      cs \in SUBSET ClientRows,
      ps \in {q \in SUBSET PhotoRows :
                /\ Cardinality(q) <= MaxPhotos} }

\* no request has arrived
Idle ==
  /\ pc = "idle"
  /\ req = NoRequest
  /\ svc = NoOutcome
  /\ resp = NoResponse
  /\ archive = NoArchive
  /\ photos = <<>>
  /\ idx = 0
  /\ cur = NoFetch
  /\ hist = <<>>
  /\ last = NoLast
  /\ conn = NoConn

Init ==
  /\ store \in {st \in Stores :
                  \A p \in st.photos : \E c \in st.clients : c.id = p.client_id}
  /\ Idle
  /\ arg = NoArg
  /\ ret = NoRet
  /\ AdminIdle

\* -------------------------------------------------------------- actions
\* A behaviour follows one request from its arrival to its end.  Requests
\* share nothing but the store, which the gallery endpoints only read, and
\* Init ranges over every store.
\* GET /gallery/:slug
getGallery(slug, r) ==
  /\ pc = "idle"
  /\ \E out \in getGalleryPayload(slug, r, store) :
       /\ svc' = out
       /\ resp' = asyncHandler(out, IF out.ok THEN success(NoResponse) ELSE NoResponse)
  /\ req' = [kind |-> "gallery", slug |-> slug, remote |-> r]
  /\ pc' = "done"
  /\ archive' = NoArchive
  /\ photos' = <<>>
  /\ idx' = 0
  /\ cur' = NoFetch
  /\ hist' = <<>>
  /\ UNCHANGED <<store, last, conn, arg, ret, pair, db, cdn, job>>

\* GET /gallery/:slug/download up to the for-loop of streamGalleryDownload:
\* the payload, then the archiver, the attachment header and the pipe
downloadGallery(slug, r) ==
  /\ pc = "idle"
  /\ \E out \in getGalleryDownloadPayload(slug, r, store) :
       /\ svc' = out
       /\ IF out.ok
          THEN /\ archive' = [NoArchive EXCEPT !.created = TRUE]
               /\ resp' = [NoResponse EXCEPT
                             !.attachment = AttachmentName(out.value.client.name)]
               /\ photos' = out.value.photos
               /\ idx' = 1
               /\ pc' = "loop"
          ELSE /\ archive' = NoArchive
               /\ resp' = asyncHandler(out, NoResponse)
               /\ photos' = <<>>
               /\ idx' = 0
               /\ pc' = "done"
  /\ req' = [kind |-> "download", slug |-> slug, remote |-> r]
  /\ cur' = NoFetch
  /\ hist' = <<>>
  /\ UNCHANGED <<store, last, conn, arg, ret, pair, db, cdn, job>>

\* variant: an entry is appended whether or not a stream came back
onFetched_AppendAlways(isStream, arch, id, name) ==
  [arch EXCEPT !.entries = Append(@, [id |-> id, name |-> name])]

\* the .then callback of fetchImageStream(photoUrl): a stream is appended
\* to the archive under the resolved name, null is logged
\* variant: a new entry is put in front of the earlier ones
onFetched_Prepend(isStream, arch, id, name) ==
  IF isStream
  THEN [arch EXCEPT !.entries = <<[id |-> id, name |-> name]>> \o @,
                    !.open = @ \cup {id}]
  ELSE arch

onFetched(isStream, arch, id, name) ==
  IF isStream
  THEN [arch EXCEPT !.entries = Append(@, [id |-> id, name |-> name]),
                    !.open = @ \cup {id}]
  ELSE arch

\* variant: the promise of a photo resolves as soon as its stream is appended
resolvesOn_Appended(event) == TRUE

\* the events at which the promise awaited by the for-loop resolves: the
\* stream's end and error, a null fetch, a rejected fetch; not the append
resolvesOn(event) == event \in {"end", "error", "null", "rejected"}

\* the promise of the current photo settles: on to the next photo
Advance(out) ==
  /\ hist' = Append(hist, [id |-> photos[idx].id, out |-> out])
  /\ idx' = idx + 1
  /\ pc' = "loop"
  /\ cur' = NoFetch

\* one turn of the for-loop up to its await: skip a photo without url,
\* resolve the entry name, start fetchImageStream(photoUrl)
LoopStep ==
  /\ pc = "loop"
  /\ idx <= Len(photos)
  /\ LET photo == photos[idx]
         name  == resolveDownloadFilename(photo)
     IN IF ~Truthy(photo.url)
        THEN Advance("skipped") /\ UNCHANGED <<resp, archive, last>>
        ELSE IF ~name.ok
        THEN \* the exception leaves streamGalleryDownload and the handler
             /\ hist' = Append(hist, [id |-> photo.id, out |-> "threw"])
             /\ resp' = asyncHandler(Raised(PlainError("URI malformed"), <<>>), resp)
             /\ pc' = "done"
             /\ UNCHANGED <<archive, idx, cur, last>>
        ELSE IF GetThrows(photo.url)
        THEN \* protocol.get throws in the executor: the promise rejects
             /\ resolvesOn("rejected")
             /\ Advance("rejected")
             /\ UNCHANGED <<resp, archive, last>>
        ELSE /\ cur' = [url |-> photo.url, attempt |-> 1, hops |-> 0,
                        redirects |-> 0, name |-> name.value,
                        prev |-> <<>>, via |-> ""]
             /\ pc' = "fetching"
             /\ last' = NoLast
             /\ UNCHANGED <<resp, archive, idx, hist>>
  /\ UNCHANGED <<store, req, svc, photos, conn, arg, ret, pair, db, cdn, job>>

\* the asset host answers the GET in flight
AssetResponse(response) ==
  /\ pc = "fetching"
  /\ LET d == fetchImageStream(cur.url, cur.attempt, response) IN
     CASE d.act = "stream" ->
            /\ archive' = onFetched(TRUE, archive, photos[idx].id, cur.name)
            /\ resp' = [resp EXCEPT !.status = 200, !.body = "zip", !.sent = TRUE]
            /\ IF resolvesOn("appended")
               THEN Advance("appended")
               ELSE pc' = "draining" /\ UNCHANGED <<idx, cur, hist>>
            /\ UNCHANGED last
       [] d.act = "null" ->
            /\ resolvesOn("null")
            /\ archive' = onFetched(FALSE, archive, photos[idx].id, cur.name)
            /\ Advance("notfound")
            /\ last' = [why |-> d.why, drained |-> d.drained,
                        status |-> response.status]
            /\ UNCHANGED resp
       [] d.act = "recurse" ->
            /\ cur.attempt < MaxAttempt
            /\ IF GetThrows(d.next)
               THEN resolvesOn("rejected") /\ Advance("rejected")
               ELSE /\ cur' = [cur EXCEPT !.url = d.next, !.attempt = @ + 1,
                                 !.hops = @ + 1,
                                 !.redirects = IF d.why = "redirect" THEN @ + 1 ELSE @,
                                 !.prev = cur.url, !.via = d.why]
                    /\ UNCHANGED <<pc, idx, hist>>
            /\ UNCHANGED <<resp, archive, last>>
  /\ UNCHANGED <<store, req, svc, photos, conn, arg, ret, pair, db, cdn, job>>

\* req.on('error'): the request fails before a response
AssetRequestError ==
  /\ pc = "fetching"
  /\ resolvesOn("null")
  /\ archive' = onFetched(FALSE, archive, photos[idx].id, cur.name)
  /\ Advance("notfound")
  /\ last' = [why |-> "request_error", drained |-> FALSE, status |-> 0]
  /\ UNCHANGED <<store, req, svc, resp, photos, conn, arg, ret, pair, db, cdn, job>>

\* stream.on('end')
StreamEnd ==
  /\ pc = "draining"
  /\ resolvesOn("end")
  /\ archive' = [archive EXCEPT !.open = @ \ {photos[idx].id}]
  /\ Advance("stream_end")
  /\ UNCHANGED <<store, req, svc, resp, photos, last, conn, arg, ret, pair, db, cdn, job>>

\* stream.on('error')
StreamError ==
  /\ pc = "draining"
  /\ resolvesOn("error")
  /\ archive' = [archive EXCEPT !.open = @ \ {photos[idx].id}]
  /\ Advance("stream_error")
  /\ UNCHANGED <<store, req, svc, resp, photos, last, conn, arg, ret, pair, db, cdn, job>>

\* variant: the failure of archive.finalize() is thrown on to the handler
onFinalizeError_Rethrow(res) ==
  asyncHandler(Raised(PlainError("finalize failed"), <<>>), res)

\* the catch block around archive.finalize(): console.error and nothing else
onFinalizeError(res) == res

\* after the loop: archive.finalize(), whose failure is logged
Finalize(ok) ==
  /\ pc = "loop"
  /\ idx > Len(photos)
  /\ archive' = [archive EXCEPT !.finalized = @ + 1, !.failed = ~ok]
  /\ resp' = IF ok
             THEN [resp EXCEPT !.status = 200, !.body = "zip", !.sent = TRUE]
             ELSE onFinalizeError(resp)
  /\ pc' = "done"
  /\ UNCHANGED <<store, req, svc, photos, idx, cur, hist, last, conn, arg, ret, pair, db, cdn, job>>

\* The client goes away while the download streams.  streamGalleryDownload
\* registers no listener on the response or the request, so nothing but the
\* connection changes.
ClientDisconnect ==
  /\ pc \in {"loop", "fetching", "draining"}
  /\ ~conn.closed
  /\ conn' = [conn EXCEPT !.closed = TRUE]
  /\ UNCHANGED <<store, pc, req, svc, resp, archive, photos, idx, cur, hist,
                 last, arg, ret, pair, db, cdn, job>>

Next ==
  \/ \E slug \in Slugs : \E r \in RemoteOutcomes(slug) : getGallery(slug, r)
  \/ \E slug \in Slugs : \E r \in RemoteOutcomes(slug) : downloadGallery(slug, r)
  \/ LoopStep
  \/ \E response \in AssetResponses : AssetResponse(response)
  \/ AssetRequestError
  \/ StreamEnd
  \/ StreamError
  \/ \E ok \in BOOLEAN : Finalize(ok)
  \/ ClientDisconnect

Spec == Init /\ [][Next]_vars

\* ------------------------------------------- the filename resolver alone
\* the arguments resolveDownloadFilename is called with: every field may be
\* missing, null or empty
FilenameArgs ==
  { Absent, JsonNull, <<>>, <<" ">>, <<" ", "x.jpg", " ">>, <<"x.jpg">> }

UrlArgs ==
  { Absent, JsonNull, <<>>,
    UrlPlain,
    UrlBadEscape,
    UrlRelative,
    Host,
    Host \o <<"/", "my", "%20", "pic.jpg">>,
    Host \o <<"/", "dir", "/">>,
    Host \o <<"/", "%20">>,
    Host \o <<"/", "a", "%20">>,
    UrlPlain \o <<"?", "w", "/", "x">>,
    <<"not", " ", "a", " ", "url", "/", "/", "/">>,
    <<"/", "rel", "/", "f.jpg", "?", "a", "/", "b">>,
    <<"/", "x", "%zz">> }

PublicIdArgs ==
  { Absent, JsonNull, <<>>, <<"one">>, <<"g", "/", "one">>, <<"g", "/">> }

ResolverInputs ==
  { Photo(id, url, filename, public_id, 0) :
      id \in {"", "p1"}, url \in UrlArgs, filename \in FilenameArgs,
      public_id \in PublicIdArgs }

InitResolver ==
  /\ store = [clients |-> {}, photos |-> {}]
  /\ Idle
  /\ arg \in ResolverInputs
  /\ ret = NoRet
  /\ AdminIdle

\* one call of resolveDownloadFilename
Resolve ==
  /\ ~ret.called
  /\ LET r == resolveDownloadFilename(arg) IN
       ret' = [called |-> TRUE, ok |-> r.ok, value |-> r.value]
  /\ UNCHANGED <<store, pc, req, svc, resp, archive, photos, idx, cur, hist,
                 last, conn, arg, pair, db, cdn, job>>

NextResolver == Resolve

SpecResolver == InitResolver /\ [][NextResolver]_vars


\* ------------------------------------------------ the photos controller
\* req.user after authMiddleware; NoUser: no valid token came with the request
NoUser == [id |-> "", role |-> "", permissions |-> {}]
Users ==
  { NoUser,
    [id |-> "u1", role |-> "EDITOR", permissions |-> {}],
    [id |-> "u2", role |-> "EDITOR", permissions |-> {"delete_photos"}],
    [id |-> "u3", role |-> "SUPER_ADMIN", permissions |-> {}] }

\* authMiddleware answers 401 itself and does not call the handler
authMiddleware(res) ==
  [res EXCEPT !.status = 401, !.error = "Unauthorized - No token provided",
              !.body = "json"]

\* one call of the CDN api
CdnCall(op, target, ok) == [op |-> op, target |-> target, ok |-> ok]

\* what a service call that writes leaves behind: how it ended, the store,
\* the CDN calls it made
Effect(out, st, calls) == [out |-> out, store |-> st, calls |-> calls]

\* variant: a failed CDN deletion aborts the call
deletePhotoRecord_AbortOnCdnFailure(id, st, cdnOk) ==
  LET rows == {p \in st.photos : p.id = id} IN
  IF rows = {}
  THEN Effect(Raised(AppError("Photo not found", 404), <<"select_photo">>), st, <<>>)
  ELSE LET photo == CHOOSE p \in rows : TRUE IN
       IF cdnOk
       THEN Effect(Returned(NullValue, <<"select_photo", "cdn_destroy", "delete_photo">>),
                   [st EXCEPT !.photos = @ \ rows],
                   <<CdnCall("destroy", photo.public_id, cdnOk)>>)
       ELSE Effect(Raised(PlainError("cloudinary error"), <<"select_photo", "cdn_destroy">>),
                   st, <<CdnCall("destroy", photo.public_id, cdnOk)>>)

\* cdnOk: whether cloudinary.uploader.destroy fulfils
deletePhotoRecord(id, st, cdnOk) ==
  LET rows == {p \in st.photos : p.id = id} IN
  IF rows = {}
  THEN Effect(Raised(AppError("Photo not found", 404), <<"select_photo">>), st, <<>>)
  ELSE LET photo == CHOOSE p \in rows : TRUE IN
       Effect(Returned(NullValue, <<"select_photo", "cdn_destroy", "delete_photo">>),
              [st EXCEPT !.photos = @ \ rows],
              <<CdnCall("destroy", photo.public_id, cdnOk)>>)

PhotoIds == {"p1", "p2", "p3", "p9"}

\* DELETE /photos/:id
deletePhoto(user, id, cdnOk) ==
  /\ pc = "idle"
  /\ req' = [kind |-> "deletePhoto", user |-> user, id |-> id, url |-> Absent,
             before |-> store]
  /\ LET canDelete == \/ user.role \in {"SUPER_ADMIN", "SUPER_ADMIN_MAX"}
                      \/ "manage_photos" \in user.permissions
                      \/ "delete_photos" \in user.permissions
         e == deletePhotoRecord(id, store, cdnOk)
     IN IF user = NoUser
        THEN /\ resp' = authMiddleware(NoResponse)
             /\ svc' = NoOutcome
             /\ UNCHANGED <<store, cdn>>
        ELSE IF ~canDelete
        THEN /\ svc' = Raised(AppError("Forbidden", 403), <<>>)
             /\ resp' = asyncHandler(svc', NoResponse)
             /\ UNCHANGED <<store, cdn>>
        ELSE /\ svc' = e.out
             /\ store' = e.store
             /\ cdn' = cdn \o e.calls
             /\ resp' = asyncHandler(e.out, IF e.out.ok THEN success(NoResponse)
                                            ELSE NoResponse)
  /\ pc' = "done"
  /\ UNCHANGED <<archive, photos, idx, cur, hist, last, conn, arg, ret, pair,
                 db, job>>

\* resolveDownloadFilename of the photos controller
photosResolveDownloadFilename(filename, url, publicId) ==
  LET direct    == normalizeFilename(filename)
      extracted == extractFilenameFromUrl(url)
      fromUrl   == normalizeFilename(extracted.value)
      base      == Pop(Split(publicId, "/"))
  IN IF direct # JsonNull THEN [ok |-> TRUE, value |-> direct]
     ELSE IF ~extracted.ok THEN [ok |-> FALSE, value |-> <<>>]
     ELSE IF fromUrl # JsonNull THEN [ok |-> TRUE, value |-> fromUrl]
     ELSE IF Truthy(publicId)
     THEN [ok |-> TRUE, value |-> IF base # <<>> THEN base ELSE publicId]
     ELSE [ok |-> TRUE, value |-> <<"download.jpg">>]

\* the query parameters of GET /download
UrlParams == {Absent, <<>>, UrlPlain, UrlVersioned, UrlBadEscape, UrlRelative}
FilenameParams == {Absent, <<"x.jpg">>}

\* the handler ends with an error before or after the fetch
PhotoFails(e, log) ==
  /\ svc' = Raised(e, log)
  /\ resp' = asyncHandler(svc', resp)
  /\ pc' = "done"

\* GET /download up to the await of fetchImageStream(url)
downloadPhoto(user, url, filename) ==
  /\ pc = "idle"
  /\ req' = [kind |-> "downloadPhoto", user |-> user, id |-> "", url |-> url,
             before |-> store]
  /\ LET name == photosResolveDownloadFilename(filename, url, Absent) IN
     IF user = NoUser
     THEN /\ resp' = authMiddleware(NoResponse)
          /\ svc' = NoOutcome
          /\ pc' = "done"
          /\ UNCHANGED <<cur, last>>
     ELSE IF ~Truthy(url)
     THEN PhotoFails(AppError("url is required", 400), <<>>) /\ UNCHANGED <<cur, last>>
     ELSE IF ~name.ok
     THEN PhotoFails(PlainError("URI malformed"), <<"resolve_name">>)
          /\ UNCHANGED <<cur, last>>
     ELSE IF GetThrows(url)
     THEN PhotoFails(PlainError("Invalid URL"), <<"resolve_name", "fetch">>)
          /\ UNCHANGED <<cur, last>>
     ELSE /\ cur' = [url |-> url, attempt |-> 1, hops |-> 0, redirects |-> 0,
                     name |-> name.value, prev |-> <<>>, via |-> ""]
          /\ last' = NoLast
          /\ svc' = Returned(NullValue, <<"resolve_name", "fetch">>)
          /\ pc' = "photoFetching"
          /\ UNCHANGED resp
  /\ UNCHANGED <<store, archive, photos, idx, hist, conn, arg, ret, pair, db,
                 cdn, job>>

\* the asset host answers the GET of downloadPhoto: on a stream the
\* Content-Disposition header is set and the stream is piped to the response
PhotoAssetResponse(response) ==
  /\ pc = "photoFetching"
  /\ LET d == fetchImageStream(cur.url, cur.attempt, response) IN
     CASE d.act = "stream" ->
            /\ resp' = [resp EXCEPT !.attachment = cur.name, !.status = 200,
                                    !.body = "stream", !.sent = TRUE]
            /\ pc' = "done"
            /\ UNCHANGED <<svc, cur, last>>
       [] d.act = "null" ->
            /\ PhotoFails(AppError("File not found", 404), svc.log)
            /\ last' = [why |-> d.why, drained |-> d.drained,
                        status |-> response.status]
            /\ UNCHANGED cur
       [] d.act = "recurse" ->
            /\ cur.attempt < MaxAttempt
            /\ IF GetThrows(d.next)
               THEN PhotoFails(PlainError("Invalid URL"), svc.log) /\ UNCHANGED cur
               ELSE /\ cur' = [cur EXCEPT !.url = d.next, !.attempt = @ + 1,
                                 !.hops = @ + 1,
                                 !.redirects = IF d.why = "redirect" THEN @ + 1 ELSE @,
                                 !.prev = cur.url, !.via = d.why]
                    /\ UNCHANGED <<pc, svc, resp>>
            /\ UNCHANGED last
  /\ UNCHANGED <<store, req, archive, photos, idx, hist, conn, arg, ret, pair,
                 db, cdn, job>>

\* req.on('error') during the GET of downloadPhoto
PhotoAssetRequestError ==
  /\ pc = "photoFetching"
  /\ PhotoFails(AppError("File not found", 404), svc.log)
  /\ last' = [why |-> "request_error", drained |-> FALSE, status |-> 0]
  /\ UNCHANGED <<store, req, archive, photos, idx, cur, hist, conn, arg, ret,
                 pair, db, cdn, job>>

NextPhotos ==
  \/ \E user \in Users : \E id \in PhotoIds : \E cdnOk \in BOOLEAN :
       deletePhoto(user, id, cdnOk)
  \/ \E user \in Users : \E url \in UrlParams : \E filename \in FilenameParams :
       downloadPhoto(user, url, filename)
  \/ \E response \in AssetResponses : PhotoAssetResponse(response)
  \/ PhotoAssetRequestError

SpecPhotos == Init /\ [][NextPhotos]_vars

\* ------------------------------------------------- lifecycle cleanup
\* days an ARCHIVED client waits before it goes to the recycle bin, days a
\* DELETED client waits there, public ids per CDN delete call
ArchiveDays == 30
RecycleDays == 7
ChunkSize == 100

CleanupIds == {"a", "b", "c"}

\* a row of the clients table as runCleanup reads it; age: whole days since
\* the time in the column getStatusTimestampColumn() names
ClientStates ==
  { [status |-> "ACTIVE", age |-> 31],
    [status |-> "ARCHIVED", age |-> 30],
    [status |-> "ARCHIVED", age |-> 31],
    [status |-> "DELETED", age |-> 7],
    [status |-> "DELETED", age |-> 8] }

\* the photos rows of one client: how many carry a public_id, how many none
PhotoCounts ==
  { [withId |-> 0, withoutId |-> 0],
    [withId |-> 1, withoutId |-> 1],
    [withId |-> 101, withoutId |-> 0] }
NoPhotos == [withId |-> 0, withoutId |-> 0]

CleanupDbs ==
  { [clients |-> {[id |-> i, status |-> st[i].status, age |-> st[i].age] : i \in ids},
     photos  |-> [i \in CleanupIds |-> IF i \in ids THEN ph[i] ELSE NoPhotos]] :
      ids \in SUBSET CleanupIds,
      st \in [CleanupIds -> ClientStates],
      ph \in [CleanupIds -> PhotoCounts] }

\* variant: the UPDATE leaves the timestamp column alone
recycleRow_KeepTimestamp(c) == [c EXCEPT !.status = "DELETED"]

\* UPDATE clients SET status = 'DELETED', <column> = NOW() WHERE id = $1
recycleRow(c) == [c EXCEPT !.status = "DELETED", !.age = 0]

\* SELECT id FROM clients WHERE status = $s AND <column> < now - days
SelectOlder(d, status, days) ==
  {c.id : c \in {x \in d.clients : x.status = status /\ x.age > days}}

\* the chunks of publicIds, ChunkSize ids each
Chunks(n) == (n + ChunkSize - 1) \div ChunkSize

\* variant: a failed CDN batch is ignored
afterBatch_Swallow(ok) == "continue"

\* await cloudinary.api.delete_resources(chunk): a rejection leaves the
\* handler
afterBatch(ok) == IF ok THEN "continue" ELSE "throw"

InitCleanup ==
  /\ store = [clients |-> {}, photos |-> {}]
  /\ Idle
  /\ arg = NoArg
  /\ ret = NoRet
  /\ pair = NoPair
  /\ db \in CleanupDbs
  /\ cdn = <<>>
  /\ job = NoJob

\* POST /api/admin/lifecycle/cleanup up to the first UPDATE
runCleanup(user) ==
  /\ job.pc = "none"
  /\ IF user = NoUser \/ user.role \notin {"SUPER_ADMIN", "SUPER_ADMIN_MAX"}
     THEN /\ job' = [pc |-> "forbidden", before |-> db, toRecycle |-> <<>>,
                     toDelete |-> <<>>, i |-> 0, chunk |-> 0]
          /\ resp' = asyncHandler(Raised(AppError("Forbidden", 403), <<>>), resp)
     ELSE /\ \E rows \in Perms(SelectOlder(db, "ARCHIVED", ArchiveDays)) :
               job' = [pc |-> "recycle", before |-> db, toRecycle |-> rows,
                       toDelete |-> <<>>, i |-> 1, chunk |-> 0]
          /\ UNCHANGED resp
  /\ UNCHANGED <<store, pc, req, svc, archive, photos, idx, cur, hist, last,
                 conn, arg, ret, pair, db, cdn>>

\* one turn of the first loop
RecycleRow ==
  /\ job.pc = "recycle"
  /\ job.i <= Len(job.toRecycle)
  /\ db' = [db EXCEPT !.clients =
              {IF c.id = job.toRecycle[job.i] THEN recycleRow(c) ELSE c : c \in @}]
  /\ job' = [job EXCEPT !.i = @ + 1]
  /\ UNCHANGED <<store, pc, req, svc, resp, archive, photos, idx, cur, hist,
                 last, conn, arg, ret, pair, cdn>>

\* the second SELECT, after the first loop
SelectToDelete ==
  /\ job.pc = "recycle"
  /\ job.i > Len(job.toRecycle)
  /\ \E rows \in Perms(SelectOlder(db, "DELETED", RecycleDays)) :
       job' = [job EXCEPT !.pc = "delete", !.toDelete = rows, !.i = 1, !.chunk = 0]
  /\ UNCHANGED <<store, pc, req, svc, resp, archive, photos, idx, cur, hist,
                 last, conn, arg, ret, pair, db, cdn>>

\* one CDN delete call for the client the second loop stands at
DeleteBatch(ok) ==
  /\ job.pc = "delete"
  /\ job.i <= Len(job.toDelete)
  /\ job.chunk < Chunks(db.photos[job.toDelete[job.i]].withId)
  /\ cdn' = Append(cdn, CdnCall("delete_resources", job.toDelete[job.i], ok))
  /\ IF afterBatch(ok) = "continue"
     THEN /\ job' = [job EXCEPT !.chunk = @ + 1]
          /\ UNCHANGED resp
     ELSE /\ job' = [job EXCEPT !.pc = "failed"]
          /\ resp' = asyncHandler(Raised(PlainError("cloudinary error"), <<>>), resp)
  /\ UNCHANGED <<store, pc, req, svc, archive, photos, idx, cur, hist, last,
                 conn, arg, ret, pair, db>>

\* DELETE FROM photos WHERE client_id = $1, after the last chunk
DeletePhotoRows ==
  /\ job.pc = "delete"
  /\ job.i <= Len(job.toDelete)
  /\ job.chunk >= Chunks(db.photos[job.toDelete[job.i]].withId)
  /\ db' = [db EXCEPT !.photos[job.toDelete[job.i]] = NoPhotos]
  /\ job' = [job EXCEPT !.pc = "client"]
  /\ UNCHANGED <<store, pc, req, svc, resp, archive, photos, idx, cur, hist,
                 last, conn, arg, ret, pair, cdn>>

\* DELETE FROM clients WHERE id = $1
DeleteClientRow ==
  /\ job.pc = "client"
  /\ db' = [db EXCEPT !.clients = {c \in @ : c.id # job.toDelete[job.i]}]
  /\ job' = [job EXCEPT !.pc = "delete", !.i = @ + 1, !.chunk = 0]
  /\ UNCHANGED <<store, pc, req, svc, resp, archive, photos, idx, cur, hist,
                 last, conn, arg, ret, pair, cdn>>

\* success(res, {...}) after the second loop
CleanupDone ==
  /\ job.pc = "delete"
  /\ job.i > Len(job.toDelete)
  /\ job' = [job EXCEPT !.pc = "done"]
  /\ resp' = success(resp)
  /\ UNCHANGED <<store, pc, req, svc, archive, photos, idx, cur, hist, last,
                 conn, arg, ret, pair, db, cdn>>

NextCleanup ==
  \/ \E user \in Users : runCleanup(user)
  \/ RecycleRow
  \/ SelectToDelete
  \/ \E ok \in BOOLEAN : DeleteBatch(ok)
  \/ DeletePhotoRows
  \/ DeleteClientRow
  \/ CleanupDone

SpecCleanup == InitCleanup /\ [][NextCleanup]_vars

\* ------------------------------------------- two downloads side by side
\* Two streamGalleryDownload calls run on one event loop.  Each call has
\* its own archive, loop cursor and fetchImageStream attempt; the asset
\* host answers a GET by its url alone.
PairRequests == {1, 2}

UrlStripped == StripVersion(UrlVersioned)
PairUrls == {UrlPlain, UrlVersioned, UrlStripped}

PairPhotos ==
  { Photo("p1", UrlPlain, <<"one.jpg">>, Absent, 1),
    Photo("p2", UrlVersioned, Absent, <<"g", "/", "two">>, 2) }

PairLists == UNION {Perms(T) : T \in SUBSET PairPhotos}

PairAnswers ==
  { [status |-> 200, location |-> Absent],
    [status |-> 404, location |-> Absent],
    [status |-> 301, location |-> UrlVersioned] }

\* the locals of one call: photos and the for-loop's position, the archive,
\* url and attempt of the fetchImageStream call in flight
PairRequest(l) ==
  [photos |-> l, idx |-> 1, pc |-> "loop", archive |-> NoArchive,
   url |-> <<>>, attempt |-> 0, name |-> <<>>]

\* variant: one archive for both calls
archiveOf_Shared(r) == 1

\* const archive = archiver('zip', ...) inside streamGalleryDownload: the
\* archive call r appends to is the one it created
archiveOf(r) == r

InitPair ==
  /\ store = [clients |-> {}, photos |-> {}]
  /\ Idle
  /\ arg = NoArg
  /\ ret = NoRet
  /\ db = NoDb
  /\ cdn = <<>>
  /\ job = NoJob
  /\ \E host \in [PairUrls -> PairAnswers] :
     \E l1 \in PairLists : \E l2 \in PairLists :
       pair = [host |-> host, reqs |-> <<PairRequest(l1), PairRequest(l2)>>]

\* the promise call r awaits settles: its loop goes to the next photo
PairAdvance(q) == [q EXCEPT !.idx = @ + 1, !.pc = "loop", !.url = <<>>, !.attempt = 0]

\* one turn of call r's for-loop up to its await
PairLoopStep(r) ==
  /\ pair # NoPair
  /\ LET q == pair.reqs[r] IN
     /\ q.pc = "loop"
     /\ q.idx <= Len(q.photos)
     /\ LET photo == q.photos[q.idx] IN
        pair' = [pair EXCEPT !.reqs[r] =
                   IF ~Truthy(photo.url) \/ GetThrows(photo.url)
                   THEN PairAdvance(q)
                   ELSE [q EXCEPT !.pc = "fetching", !.url = photo.url,
                                  !.attempt = 1,
                                  !.name = resolveDownloadFilename(photo).value]]
  /\ UNCHANGED <<store, pc, req, svc, resp, archive, photos, idx, cur, hist,
                 last, conn, arg, ret, db, cdn, job>>

\* the asset host answers the GET call r has in flight
PairAssetResponse(r) ==
  /\ pair # NoPair
  /\ LET q == pair.reqs[r]
         a == archiveOf(r) IN
     /\ q.pc = "fetching"
     /\ LET d == fetchImageStream(q.url, q.attempt, pair.host[q.url]) IN
        CASE d.act = "stream" ->
               LET appended == [pair.reqs EXCEPT ![a].archive =
                                  onFetched(TRUE, @, q.photos[q.idx].id, q.name)] IN
               pair' = [pair EXCEPT !.reqs = [appended EXCEPT ![r].pc = "draining"]]
          [] d.act = "null" ->
               pair' = [pair EXCEPT !.reqs[r] = PairAdvance(q)]
          [] d.act = "recurse" ->
               pair' = [pair EXCEPT !.reqs[r] =
                          IF GetThrows(d.next)
                          THEN PairAdvance(q)
                          ELSE [q EXCEPT !.url = d.next, !.attempt = @ + 1]]
  /\ UNCHANGED <<store, pc, req, svc, resp, archive, photos, idx, cur, hist,
                 last, conn, arg, ret, db, cdn, job>>

\* stream.on('end') of the stream call r appended
PairStreamEnd(r) ==
  /\ pair # NoPair
  /\ LET q == pair.reqs[r]
         a == archiveOf(r) IN
     /\ q.pc = "draining"
     /\ resolvesOn("end")
     /\ LET ended == [pair.reqs EXCEPT ![a].archive.open = @ \ {q.photos[q.idx].id}] IN
        pair' = [pair EXCEPT !.reqs = [ended EXCEPT ![r] = PairAdvance(ended[r])]]
  /\ UNCHANGED <<store, pc, req, svc, resp, archive, photos, idx, cur, hist,
                 last, conn, arg, ret, db, cdn, job>>

\* call r's archive.finalize() after its loop
PairFinalize(r) ==
  /\ pair # NoPair
  /\ LET q == pair.reqs[r]
         a == archiveOf(r) IN
     /\ q.pc = "loop"
     /\ q.idx > Len(q.photos)
     /\ LET closed == [pair.reqs EXCEPT ![a].archive.finalized = @ + 1] IN
        pair' = [pair EXCEPT !.reqs = [closed EXCEPT ![r].pc = "done"]]
  /\ UNCHANGED <<store, pc, req, svc, resp, archive, photos, idx, cur, hist,
                 last, conn, arg, ret, db, cdn, job>>

NextPair ==
  \/ \E r \in PairRequests : PairLoopStep(r)
  \/ \E r \in PairRequests : PairAssetResponse(r)
  \/ \E r \in PairRequests : PairStreamEnd(r)
  \/ \E r \in PairRequests : PairFinalize(r)

SpecPair == InitPair /\ [][NextPair]_vars

\* ---------------------------------------------------------------- claims
\* the remote lookup yields a gallery: a 2xx answer whose body is one
RemoteHit(r) ==
  r.kind = "http" /\ r.status >= 200 /\ r.status <= 299 /\ r.body = "gallery"

\* the rows of the store behind the slug of the request
LocalClients == {c \in store.clients : c.slug = req.slug}
LocalPhotoIds ==
  {p.id : p \in {q \in store.photos : \E c \in LocalClients : q.client_id = c.id}}
Ids(l) == {l[i].id : i \in 1..Len(l)}

\* C1: whenever the remote lookup yields no gallery (404, another non-2xx
\* status, a network error, a missing secret, an unparsable or null body),
\* both getGalleryPayload and getGalleryDownloadPayload query the local store
\* and end exactly as the local store determines: not found without a row,
\* otherwise the row with its photos (for a download: "no photos" for an
\* empty gallery); the remote failure itself is never raised.
C1_RemoteFailureFallsBack ==
  (req.kind # "none" /\ ~RemoteHit(req.remote)) =>
    /\ Len(svc.log) >= 1 /\ svc.log[1] = "clients_by_slug"
    /\ ~svc.ok => svc.err.app
    /\ LocalClients = {} => ~svc.ok /\ svc.err.status = 404
    /\ (LocalClients # {} /\ req.kind = "gallery") =>
         /\ svc.ok
         /\ svc.value.id \in {c.id : c \in LocalClients}
         /\ Ids(svc.value.photos) = LocalPhotoIds
    /\ (LocalClients # {} /\ req.kind = "download" /\ LocalPhotoIds = {}) =>
         ~svc.ok /\ svc.err.status = 400
    /\ (LocalClients # {} /\ req.kind = "download" /\ LocalPhotoIds # {}) =>
         /\ svc.ok
         /\ svc.value.client.id \in {c.id : c \in LocalClients}
         /\ Ids(svc.value.photos) = LocalPhotoIds
         /\ photos = svc.value.photos

\* a download whose remote lookup answered 500 is served from the local store
C1_Witness ==
  /\ req.kind = "download"
  /\ req.remote.kind = "http" /\ req.remote.status = 500
  /\ svc.ok /\ archive.created
  /\ Len(photos) = 2

\* C2: when the remote service answers 2xx with a gallery, getGalleryPayload
\* returns that payload unchanged and sends no query to the local store,
\* whether or not the local store has a row for the slug.
C2_RemoteHitShortCircuits ==
  (req.kind = "gallery" /\ RemoteHit(req.remote)) =>
    /\ svc.ok
    /\ svc.log = <<>>
    /\ svc.value.id = RemoteClient.id
    /\ svc.value.name = RemoteClient.name
    /\ svc.value.status = RemoteClient.status
    /\ svc.value.photosKind = req.remote.photosKind
    /\ svc.value.photos = req.remote.photos

\* a remote hit for a slug the local store also has a row and photos for
C2_Witness ==
  /\ req.kind = "gallery" /\ RemoteHit(req.remote)
  /\ LocalClients # {} /\ LocalPhotoIds # {}
  /\ svc.ok /\ svc.log = <<>>
  /\ Len(svc.value.photos) = 1

\* C3: a slug that neither source resolves ends GET /gallery/{slug} with 404
\* {error: "Client not found"} and GET /gallery/{slug}/download with 404; no
\* photos query is sent and no archive byte is written.
C3_UnresolvableSlugIs404 ==
  (req.kind # "none" /\ ~RemoteHit(req.remote) /\ LocalClients = {}) =>
    /\ resp.status = 404
    /\ resp.body = "json"
    /\ req.kind = "gallery" => resp.error = "Client not found"
    /\ \A i \in 1..Len(svc.log) :
         svc.log[i] \notin {"photos_by_client", "photos_by_client_desc"}
    /\ ~archive.created /\ archive.entries = <<>> /\ archive.finalized = 0
    /\ ~resp.sent
    /\ pc = "done"

\* the gallery read of a slug known to neither source has ended with 404
C3_Witness ==
  /\ req.kind = "gallery" /\ req.slug = "jones"
  /\ req.remote.kind = "http" /\ req.remote.status = 404
  /\ LocalClients = {}
  /\ resp.status = 404 /\ resp.error = "Client not found"


\* the photo list a download of the gallery of the request resolves to,
\* as a set of ids: the remote array if the remote lookup hit, else the rows
ResolvedPhotoIds ==
  IF RemoteHit(req.remote)
  THEN (IF req.remote.photosKind = "array" THEN Ids(req.remote.photos) ELSE {})
  ELSE LocalPhotoIds
Resolvable == RemoteHit(req.remote) \/ LocalClients # {}

\* C4: a download whose resolved photo list is empty fails with 400 "No
\* photos to download" before the archive writer exists, before the
\* attachment header is set and before any fetch; the same gallery read
\* through GET /gallery/{slug} succeeds with an empty photos list.
C4_EmptyListRejectsDownloadOnly ==
  (req.kind # "none" /\ Resolvable /\ ResolvedPhotoIds = {}) =>
    /\ req.kind = "download" =>
         /\ resp.status = 400 /\ resp.error = "No photos to download"
         /\ ~archive.created
         /\ resp.attachment = Absent
         /\ hist = <<>> /\ cur = NoFetch
         /\ pc = "done"
    /\ req.kind = "gallery" =>
         /\ resp.status = 200
         /\ svc.ok
         /\ svc.value.photosKind = "array"
         /\ svc.value.photos = <<>>

\* C5: a download is rejected before streaming unless the resolved photo
\* list holds at least one photo with a non-empty url: a gallery whose
\* photos all lack a url never reaches streamGalleryDownload and produces no
\* ZIP response.
C5_DownloadNeedsOnePhotoUrl ==
  (req.kind = "download" /\ svc.ok
     /\ \A i \in 1..Len(svc.value.photos) : ~Truthy(svc.value.photos[i].url)) =>
    /\ ~archive.created
    /\ resp.attachment = Absent
    /\ resp.body # "zip"

\* the photos reached so far that the archive got a stream for
Streamed ==
  {k \in 1..Len(hist) : hist[k].out \in {"stream_end", "stream_error"}}
  \cup (IF pc = "draining" THEN {idx} ELSE {})

\* C6: the entries appended to the archive are exactly the photos with a
\* non-empty url whose fetch returned a stream, one entry each: at every
\* moment, and so when streamGalleryDownload completes; a photo without a
\* url causes no fetch, no entry and no error.
C6_EntriesAreFetchedPhotos ==
  req.kind = "download" =>
    /\ Len(archive.entries) = Cardinality(Streamed)
    /\ \A k \in Streamed : Truthy(photos[k].url)
    /\ \A i, j \in 1..Len(archive.entries) :
         archive.entries[i].id = archive.entries[j].id => i = j
    /\ \A k \in 1..Len(hist) :
         ~Truthy(photos[k].url) =>
           /\ hist[k].out = "skipped"
           /\ \A i \in 1..Len(archive.entries) : archive.entries[i].id # photos[k].id
    /\ pc \in {"fetching", "draining"} => Truthy(photos[idx].url)
    /\ (pc = "done" /\ archive.finalized = 1) =>
         Len(archive.entries) =
           Cardinality({k \in 1..Len(photos) :
                          /\ Truthy(photos[k].url)
                          /\ hist[k].out \in {"stream_end", "stream_error"}})

\* a finished download of two photos, one without url, with one entry
C6_Witness ==
  /\ pc = "done" /\ archive.finalized = 1
  /\ Len(photos) = 2
  /\ \E k \in 1..2 : ~Truthy(photos[k].url) /\ hist[k].out = "skipped"
  /\ Len(archive.entries) = 1

\* C7: once streaming has started, no failure of a single photo (its
\* filename resolution, its fetch, its stream) aborts streamGalleryDownload:
\* every later photo is still processed and the archive is finalized.
C7_PhotoFailureNeverAborts ==
  (req.kind = "download" /\ archive.created) =>
    /\ \A k \in 1..Len(hist) : hist[k].out # "threw"
    /\ pc = "done" => (Len(hist) = Len(photos) /\ archive.finalized = 1)

\* C8: whatever the per-photo outcomes, streamGalleryDownload finalizes the
\* archive exactly once, and only after the last photo has been processed.
C8_FinalizedExactlyOnce ==
  (req.kind = "download" /\ archive.created) =>
    /\ archive.finalized <= 1
    /\ archive.finalized = 1 => (idx = Len(photos) + 1 /\ Len(hist) = Len(photos))
    /\ pc = "done" => archive.finalized = 1

\* C9: a fetchImageStream call follows at most 3 redirects: the redirect
\* that arrives when the attempt counter exceeds 3 is not followed and ends
\* the call with null.
C9_RedirectsBounded ==
  /\ [](cur.redirects <= MaxRedirectAttempt)
  /\ [][(pc = "fetching" /\ cur.attempt > MaxRedirectAttempt /\ pc' = "fetching")
          => cur'.redirects = cur.redirects]_vars
  /\ [][(last'.why = "too_many_redirects" /\ last.why # "too_many_redirects")
          => /\ pc = "fetching" /\ cur.attempt > MaxRedirectAttempt
             /\ pc' = "loop" /\ idx' = idx + 1
             /\ hist'[Len(hist')].out = "notfound"
             /\ archive' = archive]_vars

\* a fetch that was redirected on each of its attempts has ended with null
C9_Witness ==
  /\ last.why = "too_many_redirects"
  /\ hist # <<>> /\ hist[Len(hist)].out = "notfound"
  /\ pc = "loop"

\* C10: within one fetchImageStream call the follow-up requests (redirect
\* follows and 404 version-strip retries together) never exceed 3.
C10_FollowUpsBounded ==
  cur.hops <= 3

\* a url holds a /upload/v<digits>/ segment from position i to position j
VersionSegmentAt(u, i, j) ==
  /\ i >= 1 /\ j <= Len(u) /\ j >= i + 5
  /\ u[i] = "/" /\ u[i + 1] = "upload" /\ u[i + 2] = "/" /\ u[i + 3] = "v"
  /\ \A k \in (i + 4)..(j - 1) : u[k] \in Digits
  /\ u[j] = "/"
HasVersionSegment(u) ==
  \E i \in 1..Len(u) : \E j \in i..Len(u) : VersionSegmentAt(u, i, j)
\* w is u with one /upload/v<digits>/ segment replaced by /upload/
IsVersionStripOf(u, w) ==
  \E i \in 1..Len(u) : \E j \in i..Len(u) :
    /\ VersionSegmentAt(u, i, j)
    /\ w = SubSeq(u, 1, i - 1) \o <<"/", "upload", "/">> \o SubSeq(u, j + 1, Len(u))

\* C11: a 404 for a url with a /upload/v<digits>/ segment makes
\* fetchImageStream issue one more GET, to the url without that segment,
\* instead of returning not-found; a 200 answer to that GET returns its
\* stream, which the caller appends to the archive.
C11_VersionRetry ==
  /\ []((pc = "fetching" /\ HasVersionSegment(cur.url)) =>
          LET d == fetchImageStream(cur.url, cur.attempt,
                                    [status |-> 404, location |-> Absent])
          IN d.act = "recurse" /\ IsVersionStripOf(cur.url, d.next))
  /\ [][(pc = "fetching" /\ HasVersionSegment(cur.url)) => last'.status # 404]_vars
  /\ [][(pc = "fetching" /\ HasVersionSegment(cur.url) /\ cur' # cur
           /\ cur'.via = "retry_404")
          => /\ pc' = "fetching"
             /\ IsVersionStripOf(cur.url, cur'.url)
             /\ cur'.prev = cur.url
             /\ cur'.attempt = cur.attempt + 1
             /\ UNCHANGED <<idx, hist, archive>>]_vars
  /\ []((pc = "fetching" /\ cur.via = "retry_404") =>
          fetchImageStream(cur.url, cur.attempt,
                           [status |-> 200, location |-> Absent]).act = "stream")
  /\ [][(pc = "fetching" /\ cur.via = "retry_404" /\ pc' = "draining")
          => archive'.entries =
               Append(archive.entries, [id |-> photos[idx].id, name |-> cur.name])]_vars

\* the stream of the retried, version-less url is being drained into the
\* archive
C11_Witness ==
  /\ pc = "draining"
  /\ cur.via = "retry_404"
  /\ cur.prev = UrlVersioned
  /\ cur.url = Host \o <<"/", "upload", "/", "b.jpg">>
  /\ archive.entries # <<>>
  /\ archive.entries[Len(archive.entries)].id = photos[idx].id

\* C12: a fetchImageStream call never rejects: a malformed or unsupported
\* url, a malformed redirect Location and a transport error all resolve to
\* null.
C12_FetchNeverRejects ==
  /\ \A k \in 1..Len(hist) : hist[k].out # "rejected"
  /\ last.why = "request_error" =>
       (hist # <<>> /\ hist[Len(hist)].out \in {"notfound", "skipped"})

\* an optional string that is missing, empty or white space only
Blank(s) == ~Truthy(s) \/ Trim(s) = <<>>
\* the last path segment of a url: of its pathname when it parses, else of
\* the text before the "?"
LastPathSegment(url) ==
  IF ParseOk(url) THEN Pop(Split(Pathname(url), "/"))
  ELSE Pop(Split(Split(url, "?")[1], "/"))

\* C13: resolveDownloadFilename returns the first applicable of: the trimmed
\* explicit filename (when not blank); the percent-decoded last path segment
\* of the url; the last "/"-delimited segment of public_id;
\* photo_<id or "image">.jpg.
C13_TiersInOrder ==
  ret.called =>
    IF ~Blank(arg.filename)
    THEN ret.ok /\ ret.value = Trim(arg.filename)
    ELSE IF /\ Truthy(arg.url)
            /\ LastPathSegment(arg.url) # <<>>
            /\ decodeURIComponent(LastPathSegment(arg.url)).ok
    THEN ret.ok /\ ret.value = decodeURIComponent(LastPathSegment(arg.url)).value
    ELSE IF Truthy(arg.public_id) /\ Pop(Split(arg.public_id, "/")) # <<>>
    THEN ret.ok /\ ret.value = Pop(Split(arg.public_id, "/"))
    ELSE /\ ret.ok
         /\ ret.value = <<"photo_", IF arg.id # "" THEN arg.id ELSE "image", ".jpg">>

\* C14: resolveDownloadFilename returns a non-empty string for every
\* argument and never throws.
C14_ResolverTotal ==
  ret.called => (ret.ok /\ ret.value # <<>> /\ ret.value # JsonNull)

\* C15: within one download at most one photo is in progress: a fetch is in
\* flight or a stream is open only for the photo the loop stands at, and
\* every earlier photo has been skipped, has failed, or has had its stream
\* end or fail.
C15_OnePhotoAtATime ==
  req.kind = "download" =>
    /\ Cardinality(archive.open) + (IF pc = "fetching" THEN 1 ELSE 0) <= 1
    /\ pc = "draining" => archive.open = {photos[idx].id}
    /\ pc # "draining" => archive.open = {}
    /\ pc \in {"fetching", "draining"} =>
         /\ Len(hist) = idx - 1
         /\ \A k \in 1..Len(hist) :
              hist[k].out \in {"skipped", "notfound", "rejected", "stream_end",
                               "stream_error"}

\* the fetch of the second photo is in flight after the first stream ended
C15_Witness ==
  /\ pc = "fetching" /\ idx = 2
  /\ hist[1].out = "stream_end"
  /\ archive.open = {}
  /\ Len(archive.entries) = 1

\* C16: a 404 is retried only for a url with a /upload/v<digits>/ segment,
\* and the retried url differs from the failed one; any other 404 ends the
\* call with null, the body drained.
C16_RetryOnlyForVersionSegment ==
  /\ (pc = "fetching" /\ cur.via = "retry_404") =>
       (HasVersionSegment(cur.prev) /\ cur.url # cur.prev)
  /\ last.status = 404 => (last.why = "status" /\ last.drained)

\* C17: once the client has gone away the loop starts no fetch any more (a
\* fetch started from then on is for a photo the loop had not reached when
\* the client went away).
C17_DisconnectStopsLoop ==
  [][conn.closed => ~(pc = "loop" /\ pc' = "fetching")]_vars

\* C18: the photo list a download takes from the local store is ordered by
\* created_at, most recent first.
C18_DownloadListDescending ==
  (req.kind = "download" /\ ~RemoteHit(req.remote) /\ svc.ok) =>
    \A i, j \in 1..Len(photos) :
      i < j => photos[i].created_at >= photos[j].created_at

\* C19: the photos getGalleryPayload returns from the local store are all
\* the photos of the gallery, ordered by created_at, most recent first.
C19_GalleryListDescending ==
  (req.kind = "gallery" /\ ~RemoteHit(req.remote) /\ svc.ok) =>
    /\ Ids(svc.value.photos) = LocalPhotoIds
    /\ Len(svc.value.photos) = Cardinality(LocalPhotoIds)
    /\ \A i, j \in 1..Len(svc.value.photos) :
         i < j => svc.value.photos[i].created_at >= svc.value.photos[j].created_at

\* a gallery read served from the local store with two photos, newest first
C19_Witness ==
  /\ req.kind = "gallery" /\ ~RemoteHit(req.remote) /\ svc.ok
  /\ Len(svc.value.photos) = 2
  /\ svc.value.photos[1].created_at > svc.value.photos[2].created_at

\* the ids of the photos 1..k that the archive got a stream for, in the
\* order of the photo list
RECURSIVE KeptIds(_)
KeptIds(k) ==
  IF k = 0 THEN <<>>
  ELSE KeptIds(k - 1) \o (IF k \in Streamed THEN <<photos[k].id>> ELSE <<>>)

\* C20: the entries of the archive are the photo list without the skipped
\* and failed photos, in the order of the list.
C20_EntriesInListOrder ==
  req.kind = "download" =>
    /\ Len(archive.entries) = Len(KeptIds(Len(photos)))
    /\ \A i \in 1..Len(archive.entries) :
         archive.entries[i].id = KeptIds(Len(photos))[i]

\* a finished download whose two photos both made it into the archive
C20_Witness ==
  /\ pc = "done" /\ archive.finalized = 1
  /\ Len(photos) = 2
  /\ Len(archive.entries) = 2
  /\ archive.entries[1].id = photos[1].id
  /\ archive.entries[2].id = photos[2].id

\* C21: a 200 response resolves fetchImageStream with the response itself;
\* every other status that is neither a redirect with a Location header nor
\* a 404 for a url with a /upload/v<digits>/ segment resolves it with null,
\* the body drained.
C21_StatusMapping ==
  /\ pc = "fetching" =>
       \A st \in {200, 302, 403, 404, 500} :
         LET d == fetchImageStream(cur.url, cur.attempt,
                                   [status |-> st, location |-> Absent])
         IN /\ st = 200 => d.act = "stream"
            /\ (st # 200 /\ ~(st = 404 /\ HasVersionSegment(cur.url))) =>
                 (d.act = "null" /\ d.drained)
  /\ last.why = "status" => last.drained

\* C22: a failure of archive.finalize() is contained: the download ends, no
\* error status and no JSON error body are written.
C22_FinalizeFailureContained ==
  (req.kind = "download" /\ archive.finalized >= 1 /\ archive.failed) =>
    /\ pc = "done"
    /\ resp.status < 400
    /\ resp.body # "json"
    /\ resp.error = ""
    /\ \A k \in 1..Len(hist) : hist[k].out # "threw"

\* finalize failed in a download that had sent no byte yet
C22_Witness ==
  /\ req.kind = "download" /\ archive.finalized = 1 /\ archive.failed
  /\ ~resp.sent
  /\ archive.entries = <<>>
  /\ Len(hist) = 2

\* the status of the record the gallery of the request was resolved from
SourceStatus ==
  IF RemoteHit(req.remote) THEN RemoteClient.status
  ELSE (CHOOSE c \in LocalClients : TRUE).status

\* C24: every successful GET /gallery/{slug} response carries a status,
\* ACTIVE when the source record has none.
C24_StatusDefaultsToActive ==
  (req.kind = "gallery" /\ svc.ok) =>
    /\ Truthy(svc.value.status)
    /\ ~Truthy(SourceStatus) => svc.value.status = <<"ACTIVE">>

\* the pieces of a name that consist of letters and digits only
AlnumPieces == {"Smith", "Co", "Remote", "1"}

\* C25: the attachment filename is the gallery name with every character
\* that is not a letter or digit replaced by one "_", followed by
\* "_Gallery.zip", and it is set before the first photo fetch.
C25_AttachmentName ==
  (req.kind = "download" /\ svc.ok) =>
    LET name == svc.value.client.name IN
    /\ Len(resp.attachment) = Len(name) + 1
    /\ \A i \in 1..Len(name) :
         resp.attachment[i] = (IF name[i] \in AlnumPieces THEN name[i] ELSE "_")
    /\ resp.attachment[Len(name) + 1] = "_Gallery.zip"
    /\ pc # "idle"

\* the first fetch of a download of "Smith & Co" is in flight
C25_Witness ==
  /\ req.kind = "download" /\ svc.ok
  /\ pc = "fetching" /\ idx = 1 /\ hist = <<>> /\ cur.hops = 0
  /\ svc.value.client.name = <<"Smith", " ", "&", " ", "Co">>
  /\ resp.attachment = <<"Smith", "_", "_", "_", "Co", "_Gallery.zip">>

\* C26: for a download a remote hit is final: a remote gallery whose photos
\* list is missing, not an array or empty ends the request with 400 "No
\* photos to download" and no query reaches the local store.
C26_RemoteHitWithoutPhotosIsFinal ==
  (req.kind = "download" /\ RemoteHit(req.remote)
     /\ (req.remote.photosKind # "array" \/ req.remote.photos = <<>>)) =>
    /\ ~svc.ok
    /\ svc.err.app /\ svc.err.status = 400
    /\ svc.err.message = "No photos to download"
    /\ svc.log = <<>>
    /\ pc = "done" /\ ~archive.created

\* such a download for a slug whose local gallery holds photos
C26_Witness ==
  /\ req.kind = "download" /\ RemoteHit(req.remote)
  /\ req.remote.photosKind = "absent"
  /\ LocalPhotoIds # {}
  /\ ~svc.ok /\ svc.err.status = 400

\* the rows with the id of the request, before the request
RowsBefore == {p \in req.before.photos : p.id = req.id}
MayDelete(user) ==
  \/ user.role \in {"SUPER_ADMIN", "SUPER_ADMIN_MAX"}
  \/ "manage_photos" \in user.permissions
  \/ "delete_photos" \in user.permissions

\* C29: deletePhotoRecord removes the row of an existing photo, whether the
\* CDN deletion succeeds or fails, and returns success; for an unknown id it
\* fails with 404 and makes neither a CDN call nor a DELETE.
C29_DeleteEvenIfCdnFails ==
  (req.kind = "deletePhoto" /\ req.user # NoUser /\ MayDelete(req.user)) =>
    IF RowsBefore # {}
    THEN /\ svc.ok
         /\ store.photos = req.before.photos \ RowsBefore
         /\ store.clients = req.before.clients
         /\ Len(cdn) = 1 /\ cdn[1].op = "destroy"
         /\ \E p \in RowsBefore : cdn[1].target = p.public_id
    ELSE /\ ~svc.ok /\ svc.err.app /\ svc.err.status = 404
         /\ cdn = <<>>
         /\ store = req.before
         /\ \A i \in 1..Len(svc.log) : svc.log[i] \notin {"cdn_destroy", "delete_photo"}

\* the row is gone although the CDN deletion failed
C29_Witness ==
  /\ req.kind = "deletePhoto" /\ req.id = "p2"
  /\ RowsBefore # {}
  /\ Len(cdn) = 1 /\ ~cdn[1].ok
  /\ svc.ok
  /\ \A p \in store.photos : p.id # "p2"
  /\ Cardinality(store.photos) = 1

\* C30: downloadPhoto sets the attachment header and sends body bytes only
\* after fetchImageStream returned a stream; without a user it ends with
\* 401, without a url with 400, and after a fetch that yielded no stream
\* with 404 "File not found", each time without header and without body.
C30_HeaderOnlyAfterStream ==
  (req.kind = "downloadPhoto" /\ pc = "done") =>
    /\ (resp.attachment # Absent \/ resp.sent) =>
         (svc.ok /\ resp.status = 200 /\ resp.body = "stream")
    /\ req.user = NoUser =>
         (resp.status = 401 /\ resp.attachment = Absent /\ ~resp.sent)
    /\ (req.user # NoUser /\ ~Truthy(req.url)) =>
         (resp.status = 400 /\ resp.attachment = Absent /\ ~resp.sent)
    /\ (~svc.ok /\ \E i \in 1..Len(svc.log) : svc.log[i] = "fetch") =>
         /\ resp.status = 404 /\ resp.error = "File not found"
         /\ resp.attachment = Absent /\ ~resp.sent

\* the rows a client of the start of the run has now
RowsNow(c) == {x \in db.clients : x.id = c.id}
\* the CDN calls made for a client, by outcome
CallsFor(id, ok) == {k \in 1..Len(cdn) : cdn[k].target = id /\ cdn[k].ok = ok}
\* the CDN calls a client's photos need: one per 100 public ids
CallsNeeded(c) == (job.before.photos[c.id].withId + 99) \div 100

\* C27: a run of runCleanup moves a client by at most one stage: an
\* ARCHIVED client older than 30 days becomes DELETED with its timestamp
\* reset and stays in the store; only a client that was DELETED for more
\* than 7 days when the run began is removed; ACTIVE clients and all the
\* others stay as they were.
C27_OneStagePerRun ==
  job.pc # "none" =>
    \A c \in job.before.clients :
      /\ c.status = "ACTIVE" => RowsNow(c) = {c}
      /\ c.status = "ARCHIVED" =>
           \/ RowsNow(c) = {c}
           \/ /\ c.age > 30
              /\ RowsNow(c) = {[id |-> c.id, status |-> "DELETED", age |-> 0]}
      /\ (c.status = "ARCHIVED" /\ c.age <= 30) => RowsNow(c) = {c}
      /\ c.status = "DELETED" =>
           \/ RowsNow(c) = {c}
           \/ RowsNow(c) = {} /\ c.age > 7
      /\ job.pc = "done" =>
           /\ (c.status = "ARCHIVED" /\ c.age > 30) => RowsNow(c) # {c}
           /\ (c.status = "DELETED" /\ c.age > 7) => RowsNow(c) = {}

\* a finished run that recycled one client and removed another
C27_Witness ==
  /\ job.pc = "done"
  /\ \E c \in job.before.clients :
       /\ c.status = "ARCHIVED" /\ c.age = 31
       /\ RowsNow(c) = {[id |-> c.id, status |-> "DELETED", age |-> 0]}
  /\ \E c \in job.before.clients :
       c.status = "DELETED" /\ c.age = 8 /\ RowsNow(c) = {}

\* C28: the photo rows and the client row of a client are deleted only
\* after all its CDN delete calls succeeded; a failed call stops the run with
\* an error, the rows of that client and of the clients not yet reached
\* stay, and what the run changed before stays changed.
C28_RowsDeletedAfterCdn ==
  job.pc # "none" =>
    /\ \A c \in job.before.clients :
         (RowsNow(c) = {} \/ db.photos[c.id] # job.before.photos[c.id]) =>
           /\ CallsFor(c.id, FALSE) = {}
           /\ Cardinality(CallsFor(c.id, TRUE)) = CallsNeeded(c)
    /\ (\E k \in 1..Len(cdn) : ~cdn[k].ok) =>
         /\ job.pc = "failed"
         /\ ~cdn[Len(cdn)].ok
         /\ cdn[Len(cdn)].target = job.toDelete[job.i]
    /\ job.pc = "failed" =>
         /\ \A k \in job.i..Len(job.toDelete) :
              /\ \E x \in db.clients : x.id = job.toDelete[k] /\ x \in job.before.clients
              /\ db.photos[job.toDelete[k]] = job.before.photos[job.toDelete[k]]
         /\ \A k \in 1..(job.i - 1) :
              /\ \A x \in db.clients : x.id # job.toDelete[k]
              /\ db.photos[job.toDelete[k]] = NoPhotos
         /\ \A k \in 1..Len(job.toRecycle) :
              [id |-> job.toRecycle[k], status |-> "DELETED", age |-> 0] \in db.clients

\* the second CDN call of the second client failed after one client was
\* recycled and one removed
C28_Witness ==
  /\ job.pc = "failed"
  /\ Len(job.toRecycle) = 1
  /\ Len(job.toDelete) = 2 /\ job.i = 2
  /\ Len(cdn) >= 2 /\ cdn[Len(cdn) - 1].ok /\ cdn[Len(cdn) - 1].target = job.toDelete[2]
  /\ Cardinality(db.clients) = 2

\* what fetchImageStream(url, attempt) resolves with when the host answers
\* by host: TRUE for a stream
RECURSIVE AloneFetch(_, _, _)
AloneFetch(host, url, attempt) ==
  LET d == fetchImageStream(url, attempt, host[url]) IN
  IF d.act = "stream" THEN TRUE
  ELSE IF d.act = "null" THEN FALSE
  ELSE IF GetThrows(d.next) THEN FALSE
  ELSE AloneFetch(host, d.next, attempt + 1)

\* the entries a download of the list l has when it runs alone
RECURSIVE AloneEntries(_, _)
AloneEntries(host, l) ==
  IF l = <<>> THEN <<>>
  ELSE LET photo == Head(l)
           rest == AloneEntries(host, Tail(l)) IN
       IF Truthy(photo.url) /\ ~GetThrows(photo.url) /\ AloneFetch(host, photo.url, 1)
       THEN <<[id |-> photo.id, name |-> resolveDownloadFilename(photo).value]>> \o rest
       ELSE rest

IsPrefixOf(a, b) == Len(a) <= Len(b) /\ a = SubSeq(b, 1, Len(a))

\* C23: of two downloads running side by side, each has at every moment a
\* prefix of the entries it has when it runs alone, ends with exactly those
\* entries, and finalizes its archive once, at its own end, whatever the
\* order in which the steps of the two interleave.
C23_RequestsIndependent ==
  pair # NoPair =>
    \A r \in PairRequests :
      LET q == pair.reqs[r]
          alone == AloneEntries(pair.host, q.photos) IN
      /\ IsPrefixOf(q.archive.entries, alone)
      /\ q.archive.finalized = IF q.pc = "done" THEN 1 ELSE 0
      /\ q.pc = "done" => q.archive.entries = alone
      /\ q.pc = "fetching" => q.attempt >= 1 /\ q.url \in PairUrls
      /\ q.archive.open \subseteq {q.photos[i].id : i \in 1..Len(q.photos)}

\* both downloads are in the middle of their second photo, each after a
\* follow-up request, each with its first photo in its archive
C23_Witness ==
  /\ pair # NoPair
  /\ \A r \in PairRequests :
       /\ pair.reqs[r].pc = "fetching"
       /\ pair.reqs[r].idx = 2
       /\ pair.reqs[r].attempt >= 2
       /\ Len(pair.reqs[r].archive.entries) = 1
  /\ pair.reqs[1].photos # pair.reqs[2].photos

====
